---- MODULE Spec2Model ----
(***************************************************************************)
(* Gesture-Paper-Burner: the gesture-driven paper state machine of         *)
(* AppComponent (app.component.ts), the signals of GestureService it       *)
(* listens to, the landmark classifier of GestureService                   *)
(* (processGesture), and the background-music part of AudioService.        *)
(*                                                                         *)
(* Proximity is a float in [0,1] in the code; the model keeps it in        *)
(* hundredths (0.15 is 15), so `proximity > 0.15` is `proximity > 15`.     *)
(* A Spark is seven random numbers; the model keeps the length of the      *)
(* spark list only.                                                        *)
(*                                                                         *)
(* Angular signals: signal.set(v) with v equal to the current value        *)
(* (Object.is) notifies nobody; otherwise every effect that read the       *)
(* signal in its last run is marked dirty and is run again later.  The     *)
(* effect of the constructor reads currentGesture, handProximity and,      *)
(* inside handleGameLoop, paperState: these three are its dependencies.    *)
(* The effect writes paperState (triggerCrumple, burnPaper); the model      *)
(* takes the write to be allowed, as the running program needs it to be.   *)
(*                                                                         *)
(* Timers carry no clock: a pending setTimeout callback may fire at any    *)
(* later step, callbacks of one delay in the order they were set.          *)
(***************************************************************************)
EXTENDS Integers, Sequences, FiniteSets, TLC

VARIABLES
    \* AppComponent
    paperState, fileName, fileType, isShaking, sparks,
    gestureHoldCounter, canCrumple,
    \* pending setTimeout callbacks of AppComponent
    burnTimers, shakeTimers,
    \* the file dialog of <input type=file> opened by triggerUpload
    dialogOpen,
    \* the effect of the constructor: scheduled to run (again)
    effectDirty,
    \* GestureService
    currentGesture, handProximity,
    \* the landmarks of the frame predictWebcam handled last (<< >>: none or
    \* no hand), and the exception that escaped from it ("none": no exception)
    landmarks, thrown,
    \* AudioService
    ctx, isMusicPlaying, nextNoteTimer,
    \* observation: what the last step was and did
    last, cues, fistRun, crumplesInHold, burnSeq, loads

vars == << paperState, fileName, fileType, isShaking, sparks,
           gestureHoldCounter, canCrumple, burnTimers, shakeTimers,
           dialogOpen, effectDirty, currentGesture, handProximity,
           landmarks, thrown, ctx, isMusicPlaying, nextNoteTimer,
           last, cues, fistRun, crumplesInHold, burnSeq, loads >>

----------------------------------------------------------------------------
(* Bounds of the model *)

\* history counters saturate here (two full holds of 6 frames fit below it)
MaxRun == 13
\* number of files the page is given (calls of handleFile) in one behaviour
MaxLoads == 2
\* the same, in the behaviours checked under fairness
MaxFairLoads == 1

(* Program constants *)

\* `this.gestureHoldCounter > 5`
HoldThreshold == 5
\* `proximity > 0.15`, in hundredths
BurnProximity == 15
\* `for (let i = 0; i < 40; i++)`
SparkCount == 40

PaperStates == {"IDLE", "ACTIVE", "CRUMPLED_1", "CRUMPLED_2",
                "CRUMPLED_FINAL", "BURNING", "ASHES"}
GestureTypes == {"NONE", "FIST", "OPEN_PALM"}
\* hundredths; 0 is "no hand", 15 is the burn threshold itself, 16 is above
Proximities == {0, 15, 16}
NoFile == [name |-> "", type |-> ""]
Files == {[name |-> "a.txt", type |-> "text/plain"],
          [name |-> "b.png", type |-> "image/png"]}

\* saturation of the observation counters
Min(a, b) == IF a < b THEN a ELSE b
Max(a, b) == IF a > b THEN a ELSE b

----------------------------------------------------------------------------
(* The program state as one record, so that a handler is a function from   *)
(* state to state and a handler's calls compose in the code's order.       *)
(* crumpleCalls / burnCalls count the calls of triggerCrumple / burnPaper  *)
(* made by the handler that is running.                                    *)

Cur ==
    [paperState |-> paperState, fileName |-> fileName, fileType |-> fileType,
     isShaking |-> isShaking, sparks |-> sparks,
     gestureHoldCounter |-> gestureHoldCounter, canCrumple |-> canCrumple,
     burnTimers |-> burnTimers, shakeTimers |-> shakeTimers,
     dialogOpen |-> dialogOpen, effectDirty |-> effectDirty,
     currentGesture |-> currentGesture, handProximity |-> handProximity,
     landmarks |-> landmarks, thrown |-> thrown,
     ctx |-> ctx, isMusicPlaying |-> isMusicPlaying,
     nextNoteTimer |-> nextNoteTimer,
     burnSeq |-> burnSeq, loads |-> loads,
     cues |-> {}, crumpleCalls |-> 0, burnCalls |-> 0]

Install(s) ==
    /\ paperState' = s.paperState
    /\ fileName' = s.fileName
    /\ fileType' = s.fileType
    /\ isShaking' = s.isShaking
    /\ sparks' = s.sparks
    /\ gestureHoldCounter' = s.gestureHoldCounter
    /\ canCrumple' = s.canCrumple
    /\ burnTimers' = s.burnTimers
    /\ shakeTimers' = s.shakeTimers
    /\ dialogOpen' = s.dialogOpen
    /\ effectDirty' = s.effectDirty
    /\ currentGesture' = s.currentGesture
    /\ handProximity' = s.handProximity
    /\ landmarks' = s.landmarks
    /\ thrown' = s.thrown
    /\ ctx' = s.ctx
    /\ isMusicPlaying' = s.isMusicPlaying
    /\ nextNoteTimer' = s.nextNoteTimer
    /\ burnSeq' = s.burnSeq
    /\ loads' = s.loads
    /\ cues' = s.cues

\* `last`: whether the last step was a run of handleGameLoop, the number of
\* calls of triggerCrumple and of burnPaper it made, and the hold count it
\* threw away (the else branch of the crumpling logic)
NoCalls == [loop |-> FALSE, crumple |-> 0, burn |-> 0, cancelled |-> 0]

----------------------------------------------------------------------------
(* Signals *)

\* paperState.set(v): the effect depends on paperState (it reads it in
\* handleGameLoop), so a change of value marks the effect dirty
setPaperState(s, v) ==
    IF s.paperState = v THEN s
    ELSE [s EXCEPT !.paperState = v, !.effectDirty = TRUE]

\* currentGesture.set(v)
setCurrentGesture(s, v) ==
    IF s.currentGesture = v THEN s
    ELSE [s EXCEPT !.currentGesture = v, !.effectDirty = TRUE]

\* handProximity.set(v)
setHandProximity(s, v) ==
    IF s.handProximity = v THEN s
    ELSE [s EXCEPT !.handProximity = v, !.effectDirty = TRUE]

----------------------------------------------------------------------------
(* GestureService.processGesture                                           *)
(*                                                                         *)
(* A landmark is a record [x, y, z].  Coordinates are floats in the code;  *)
(* the model keeps them in twentieths (1.0 is 20), so the bounding-box     *)
(* area is in 1/400 (0.05 is 20, 0.30 is 120) and                          *)
(* (area - 0.05) / 0.25 in hundredths is area - 20.  The arithmetic is     *)
(* exact: the rounding of doubles is not modelled.                         *)
(* A landmark list is a sequence; landmarks[i] of the code is              *)
(* landmarks[i + 1] here, and undefined when i >= landmarks.length.        *)

\* landmarks[i] is not undefined
Defined(lm, i) == i < Len(lm)

\* landmarks[i]
At(lm, i) == lm[i + 1]

\* the bodies of the forEach over the points from index i on; b is
\* minX, maxX, minY, maxY so far
RECURSIVE boundingBox(_, _, _)
boundingBox(lm, i, b) ==
    IF ~Defined(lm, i) THEN b
    ELSE LET pt == At(lm, i)
         IN  boundingBox(lm, i + 1,
                 [minX |-> IF pt.x < b.minX THEN pt.x ELSE b.minX,
                  maxX |-> IF pt.x > b.maxX THEN pt.x ELSE b.maxX,
                  minY |-> IF pt.y < b.minY THEN pt.y ELSE b.minY,
                  maxY |-> IF pt.y > b.maxY THEN pt.y ELSE b.maxY])

\* proximityOf without Math.max(.., 0)
proximityOfNoFloor(area) == Min(area - 20, 100)

\* Math.min(Math.max((area - 0.05) / 0.25, 0), 1), in hundredths
proximityOf(area) == Min(Max(area - 20, 0), 100)

\* dist(a, b) squared: Math.sqrt is strictly increasing, so comparing the
\* squares is comparing the distances
dist(a, b) ==
    (a.x - b.x) * (a.x - b.x) + (a.y - b.y) * (a.y - b.y)
        + (a.z - b.z) * (a.z - b.z)

\* curled with the knuckle (MCP) in the place of the PIP joint
curledMcp(lm, tipIdx) ==
    dist(At(lm, tipIdx), At(lm, 0)) < dist(At(lm, tipIdx - 3), At(lm, 0))

\* the test of one finger in tips.forEach: dTip < dPip, the PIP joint being
\* landmarks[tipIdx - 2].  dMcp is computed and not used.
curled(lm, tipIdx) ==
    dist(At(lm, tipIdx), At(lm, 0)) < dist(At(lm, tipIdx - 2), At(lm, 0))

\* processGesture(landmarks).  handProximity is set before the fingers are
\* looked at.  Reading .x of an undefined landmark in dist throws a
\* TypeError: of landmarks[tipIdx], landmarks[mcps[i]], landmarks[tipIdx - 2]
\* and landmarks[0] the tip has the largest index, so the call throws
\* exactly when some tip is undefined, and then before currentGesture is set.
processGesture(s, lm) ==
    LET b == boundingBox(lm, 0,
                 [minX |-> 20, maxX |-> 0, minY |-> 20, maxY |-> 0])
        width == b.maxX - b.minX
        height == b.maxY - b.minY
        area == width * height
        s1 == setHandProximity(s, proximityOf(area))
        tips == {8, 12, 16, 20}
    IN  IF \E tipIdx \in tips : ~Defined(lm, tipIdx)
        THEN [s1 EXCEPT !.thrown = "TypeError"]
        ELSE LET curledCount ==
                     Cardinality({tipIdx \in tips : curled(lm, tipIdx)})
             IN  IF curledCount >= 3
                 THEN setCurrentGesture(s1, "FIST")
                 ELSE IF curledCount = 0
                      THEN setCurrentGesture(s1, "OPEN_PALM")
                      ELSE setCurrentGesture(s1, "NONE")

----------------------------------------------------------------------------
(* AudioService *)

\* init(): create the AudioContext if there is none
init(s) == [s EXCEPT !.ctx = TRUE]

\* playNextNote(): play one note and schedule the next one
playNextNote(s) ==
    IF ~s.isMusicPlaying \/ ~s.ctx THEN s
    ELSE [s EXCEPT !.nextNoteTimer = TRUE]

\* startMusic()
startMusic(s) ==
    IF s.isMusicPlaying THEN s
    ELSE playNextNote([init(s) EXCEPT !.isMusicPlaying = TRUE,
                                      !.cues = @ \cup {"MusicStart"}])

\* stopMusic(): clearTimeout(nextNoteTimer)
stopMusic(s) ==
    [s EXCEPT !.isMusicPlaying = FALSE, !.nextNoteTimer = FALSE,
              !.cues = @ \cup {"MusicStop"}]

\* playCrumple(): after init() the context exists, so the bursts are played
playCrumple(s) ==
    LET t == init(s)
    IN  IF ~t.ctx THEN t ELSE [t EXCEPT !.cues = @ \cup {"CrumpleSound"}]

\* playBurn()
playBurn(s) ==
    LET t == init(s)
    IN  IF ~t.ctx THEN t ELSE [t EXCEPT !.cues = @ \cup {"BurnSound"}]

----------------------------------------------------------------------------
(* AppComponent *)

\* generateSparks(): a fresh list of 40 sparks
generateSparks(s) ==
    [s EXCEPT !.sparks = SparkCount, !.cues = @ \cup {"SparksBurst"}]

\* triggerCrumple with the sound and the shake outside `if (changed)`
triggerCrumpleAlwaysCues(s) ==
    LET c == [s EXCEPT !.crumpleCalls = @ + 1]
        current == c.paperState
        set == IF current = "ACTIVE" THEN setPaperState(c, "CRUMPLED_1")
               ELSE IF current = "CRUMPLED_1" THEN setPaperState(c, "CRUMPLED_2")
               ELSE IF current = "CRUMPLED_2"
                    THEN setPaperState(c, "CRUMPLED_FINAL")
               ELSE c
    IN  [playCrumple(set) EXCEPT !.isShaking = TRUE,
                                 !.shakeTimers = @ + 1,
                                 !.cues = @ \cup {"ShakePulse"}]

\* triggerCrumple with the first stage skipped
triggerCrumpleSkip(s) ==
    LET c == [s EXCEPT !.crumpleCalls = @ + 1]
        current == c.paperState
        set == IF current = "ACTIVE" THEN setPaperState(c, "CRUMPLED_2")
               ELSE IF current = "CRUMPLED_1" THEN setPaperState(c, "CRUMPLED_2")
               ELSE IF current = "CRUMPLED_2"
                    THEN setPaperState(c, "CRUMPLED_FINAL")
               ELSE c
        changed == current \in {"ACTIVE", "CRUMPLED_1", "CRUMPLED_2"}
    IN  IF changed
        THEN [playCrumple(set) EXCEPT !.isShaking = TRUE,
                                      !.shakeTimers = @ + 1,
                                      !.cues = @ \cup {"ShakePulse"}]
        ELSE set

\* triggerCrumple whose first branch is a final else: every state that is
\* not CRUMPLED_1 or CRUMPLED_2 is crumpled to CRUMPLED_1
triggerCrumpleDefault(s) ==
    LET c == [s EXCEPT !.crumpleCalls = @ + 1]
        current == c.paperState
        set == IF current = "CRUMPLED_1" THEN setPaperState(c, "CRUMPLED_2")
               ELSE IF current = "CRUMPLED_2"
                    THEN setPaperState(c, "CRUMPLED_FINAL")
               ELSE setPaperState(c, "CRUMPLED_1")
    IN  [playCrumple(set) EXCEPT !.isShaking = TRUE,
                                 !.shakeTimers = @ + 1,
                                 !.cues = @ \cup {"ShakePulse"}]

triggerCrumple(s) ==
    LET c == [s EXCEPT !.crumpleCalls = @ + 1]
        current == c.paperState
        set == IF current = "ACTIVE" THEN setPaperState(c, "CRUMPLED_1")
               ELSE IF current = "CRUMPLED_1" THEN setPaperState(c, "CRUMPLED_2")
               ELSE IF current = "CRUMPLED_2"
                    THEN setPaperState(c, "CRUMPLED_FINAL")
               ELSE c
        changed == current \in {"ACTIVE", "CRUMPLED_1", "CRUMPLED_2"}
    IN  IF changed
        THEN [playCrumple(set) EXCEPT !.isShaking = TRUE,
                                      !.shakeTimers = @ + 1,
                                      !.cues = @ \cup {"ShakePulse"}]
        ELSE set

\* burnPaper without the setTimeout
burnPaperNoTimer(s) ==
    LET b == [s EXCEPT !.burnCalls = @ + 1]
    IN  IF b.paperState = "BURNING" \/ b.paperState = "ASHES" THEN b
        ELSE LET t == generateSparks(playBurn(setPaperState(b, "BURNING")))
             IN  [t EXCEPT !.burnSeq = @ + 1]

burnPaper(s) ==
    LET b == [s EXCEPT !.burnCalls = @ + 1]
    IN  IF b.paperState = "BURNING" \/ b.paperState = "ASHES" THEN b
        ELSE LET t == generateSparks(playBurn(setPaperState(b, "BURNING")))
             IN  [t EXCEPT !.burnSeq = @ + 1,
                           !.burnTimers = Append(@, t.burnSeq + 1)]

\* handleGameLoop with `>= 5` for `> 5`
handleGameLoopEarly(s, gesture, proximity) ==
    LET s1 == IF gesture = "OPEN_PALM" \/ gesture = "NONE"
              THEN [s EXCEPT !.canCrumple = TRUE]
              ELSE s
        s2 == IF gesture = "FIST" /\ s1.canCrumple
              THEN LET c == [s1 EXCEPT !.gestureHoldCounter = @ + 1]
                   IN  IF c.gestureHoldCounter >= HoldThreshold
                       THEN [triggerCrumple(c) EXCEPT
                                 !.gestureHoldCounter = 0,
                                 !.canCrumple = FALSE]
                       ELSE c
              ELSE [s1 EXCEPT !.gestureHoldCounter = 0]
    IN  IF s2.paperState = "CRUMPLED_FINAL"
        THEN IF gesture = "OPEN_PALM" /\ proximity > BurnProximity
             THEN burnPaper(s2)
             ELSE s2
        ELSE s2

\* handleGameLoop without the else branch that resets the count
handleGameLoopCumulative(s, gesture, proximity) ==
    LET s1 == IF gesture = "OPEN_PALM" \/ gesture = "NONE"
              THEN [s EXCEPT !.canCrumple = TRUE]
              ELSE s
        s2 == IF gesture = "FIST" /\ s1.canCrumple
              THEN LET c == [s1 EXCEPT !.gestureHoldCounter = @ + 1]
                   IN  IF c.gestureHoldCounter > HoldThreshold
                       THEN [triggerCrumple(c) EXCEPT
                                 !.gestureHoldCounter = 0,
                                 !.canCrumple = FALSE]
                       ELSE c
              ELSE s1
    IN  IF s2.paperState = "CRUMPLED_FINAL"
        THEN IF gesture = "OPEN_PALM" /\ proximity > BurnProximity
             THEN burnPaper(s2)
             ELSE s2
        ELSE s2

\* handleGameLoop without `this.canCrumple = false`
handleGameLoopNoGate(s, gesture, proximity) ==
    LET s1 == IF gesture = "OPEN_PALM" \/ gesture = "NONE"
              THEN [s EXCEPT !.canCrumple = TRUE]
              ELSE s
        s2 == IF gesture = "FIST" /\ s1.canCrumple
              THEN LET c == [s1 EXCEPT !.gestureHoldCounter = @ + 1]
                   IN  IF c.gestureHoldCounter > HoldThreshold
                       THEN [triggerCrumple(c) EXCEPT
                                 !.gestureHoldCounter = 0]
                       ELSE c
              ELSE [s1 EXCEPT !.gestureHoldCounter = 0]
    IN  IF s2.paperState = "CRUMPLED_FINAL"
        THEN IF gesture = "OPEN_PALM" /\ proximity > BurnProximity
             THEN burnPaper(s2)
             ELSE s2
        ELSE s2

\* handleGameLoop without the CRUMPLED_FINAL test of the burning logic
handleGameLoopBurnAnywhere(s, gesture, proximity) ==
    LET s1 == IF gesture = "OPEN_PALM" \/ gesture = "NONE"
              THEN [s EXCEPT !.canCrumple = TRUE]
              ELSE s
        s2 == IF gesture = "FIST" /\ s1.canCrumple
              THEN LET c == [s1 EXCEPT !.gestureHoldCounter = @ + 1]
                   IN  IF c.gestureHoldCounter > HoldThreshold
                       THEN [triggerCrumple(c) EXCEPT
                                 !.gestureHoldCounter = 0,
                                 !.canCrumple = FALSE]
                       ELSE c
              ELSE [s1 EXCEPT !.gestureHoldCounter = 0]
    IN  IF TRUE
        THEN IF gesture = "OPEN_PALM" /\ proximity > BurnProximity
             THEN burnPaper(s2)
             ELSE s2
        ELSE s2

\* handleGameLoop with `proximity >= 0.15` for `proximity > 0.15`
handleGameLoopBurnAtThreshold(s, gesture, proximity) ==
    LET s1 == IF gesture = "OPEN_PALM" \/ gesture = "NONE"
              THEN [s EXCEPT !.canCrumple = TRUE]
              ELSE s
        s2 == IF gesture = "FIST" /\ s1.canCrumple
              THEN LET c == [s1 EXCEPT !.gestureHoldCounter = @ + 1]
                   IN  IF c.gestureHoldCounter > HoldThreshold
                       THEN [triggerCrumple(c) EXCEPT
                                 !.gestureHoldCounter = 0,
                                 !.canCrumple = FALSE]
                       ELSE c
              ELSE [s1 EXCEPT !.gestureHoldCounter = 0]
    IN  IF s2.paperState = "CRUMPLED_FINAL"
        THEN IF gesture = "OPEN_PALM" /\ proximity >= BurnProximity
             THEN burnPaper(s2)
             ELSE s2
        ELSE s2

\* handleGameLoop without the counter reset that follows a crumple
handleGameLoopNoCountReset(s, gesture, proximity) ==
    LET s1 == IF gesture = "OPEN_PALM" \/ gesture = "NONE"
              THEN [s EXCEPT !.canCrumple = TRUE]
              ELSE s
        s2 == IF gesture = "FIST" /\ s1.canCrumple
              THEN LET c == [s1 EXCEPT !.gestureHoldCounter = @ + 1]
                   IN  IF c.gestureHoldCounter > HoldThreshold
                       THEN [triggerCrumple(c) EXCEPT !.canCrumple = FALSE]
                       ELSE c
              ELSE [s1 EXCEPT !.gestureHoldCounter = 0]
    IN  IF s2.paperState = "CRUMPLED_FINAL"
        THEN IF gesture = "OPEN_PALM" /\ proximity > BurnProximity
             THEN burnPaper(s2)
             ELSE s2
        ELSE s2

handleGameLoop(s, gesture, proximity) ==
    LET s1 == IF gesture = "OPEN_PALM" \/ gesture = "NONE"
              THEN [s EXCEPT !.canCrumple = TRUE]
              ELSE s
        s2 == IF gesture = "FIST" /\ s1.canCrumple
              THEN LET c == [s1 EXCEPT !.gestureHoldCounter = @ + 1]
                   IN  IF c.gestureHoldCounter > HoldThreshold
                       THEN [triggerCrumple(c) EXCEPT
                                 !.gestureHoldCounter = 0,
                                 !.canCrumple = FALSE]
                       ELSE c
              ELSE [s1 EXCEPT !.gestureHoldCounter = 0]
    IN  IF s2.paperState = "CRUMPLED_FINAL"
        THEN IF gesture = "OPEN_PALM" /\ proximity > BurnProximity
             THEN burnPaper(s2)
             ELSE s2
        ELSE s2

handleFile(s, file) ==
    startMusic(setPaperState([s EXCEPT !.fileName = file.name,
                                       !.fileType = file.type,
                                       !.loads = @ + 1], "ACTIVE"))

reset(s) ==
    stopMusic([setPaperState(s, "IDLE") EXCEPT !.fileName = "", !.sparks = 0])

----------------------------------------------------------------------------
(* Initial state: the fields' initialisers; the effect created in the      *)
(* constructor is scheduled for its first run.                             *)

Init ==
    /\ paperState = "IDLE"
    /\ fileName = ""
    /\ fileType = ""
    /\ isShaking = FALSE
    /\ sparks = 0
    /\ gestureHoldCounter = 0
    /\ canCrumple = TRUE
    /\ burnTimers = << >>
    /\ shakeTimers = 0
    /\ dialogOpen = FALSE
    /\ effectDirty = TRUE
    /\ currentGesture = "NONE"
    /\ handProximity = 0
    /\ landmarks = << >>
    /\ thrown = "none"
    /\ ctx = FALSE
    /\ isMusicPlaying = FALSE
    /\ nextNoteTimer = FALSE
    /\ last = NoCalls
    /\ cues = {}
    /\ fistRun = 0
    /\ crumplesInHold = 0
    /\ burnSeq = 0
    /\ loads = 0

----------------------------------------------------------------------------
(* Actions *)

\* GestureService.predictWebcam on a new video frame: processGesture sets
\* handProximity and currentGesture; with no hand both are set to NONE, 0
Sample(gesture, proximity) ==
    /\ ~effectDirty
    /\ Install(setCurrentGesture(setHandProximity(Cur, proximity), gesture))
    /\ last' = NoCalls
    /\ UNCHANGED << fistRun, crumplesInHold >>

\* the constructor's effect runs: one call of handleGameLoop with the
\* signals' current values.  A paperState.set made by the run itself marks
\* the effect dirty again.  Angular flushes a dirty effect in the change
\* detection that follows the task that dirtied it, before the next frame,
\* timer or DOM event is handled: every other action waits for it.
RunEffect ==
    /\ effectDirty
    /\ LET s == handleGameLoop([Cur EXCEPT !.effectDirty = FALSE],
                               currentGesture, handProximity)
       IN  /\ Install(s)
           /\ last' = [loop |-> TRUE, crumple |-> s.crumpleCalls,
                       burn |-> s.burnCalls,
                       cancelled |-> IF currentGesture = "FIST" THEN 0
                                     ELSE gestureHoldCounter]
           /\ fistRun' = IF currentGesture = "FIST"
                         THEN Min(fistRun + 1, MaxRun) ELSE 0
           /\ crumplesInHold' =
                  IF currentGesture = "FIST"
                  THEN Min(crumplesInHold + s.crumpleCalls, MaxRun)
                  ELSE 0

\* the 2500 ms timer of burnPaper fires (timers of equal delay fire in the
\* order they were set)
BurnTimer ==
    /\ ~effectDirty
    /\ burnTimers # << >>
    /\ Install([setPaperState(Cur, "ASHES") EXCEPT
                    !.sparks = 0,
                    !.burnTimers = Tail(@),
                    !.cues = {"SparksClear"}])
    /\ last' = NoCalls
    /\ UNCHANGED << fistRun, crumplesInHold >>

\* the 400 ms timer of triggerCrumple fires
ShakeTimer ==
    /\ ~effectDirty
    /\ shakeTimers > 0
    /\ Install([Cur EXCEPT !.isShaking = FALSE, !.shakeTimers = @ - 1])
    /\ last' = NoCalls
    /\ UNCHANGED << fistRun, crumplesInHold >>

\* the timer of playNextNote fires
NoteTimer ==
    /\ ~effectDirty
    /\ nextNoteTimer
    /\ Install(playNextNote([Cur EXCEPT !.nextNoteTimer = FALSE]))
    /\ last' = NoCalls
    /\ UNCHANGED << fistRun, crumplesInHold >>

\* a click on the paper
TriggerUpload ==
    /\ ~effectDirty
    /\ Install(IF paperState = "IDLE"
               THEN [init(Cur) EXCEPT !.dialogOpen = TRUE]
               ELSE Cur)
    /\ last' = NoCalls
    /\ UNCHANGED << fistRun, crumplesInHold >>

\* the change event of the file input, from the dialog triggerUpload opened
OnFileSelected(file) ==
    /\ ~effectDirty
    /\ dialogOpen
    /\ file # NoFile => loads < MaxLoads
    /\ Install(IF file # NoFile
               THEN handleFile([Cur EXCEPT !.dialogOpen = FALSE], file)
               ELSE [Cur EXCEPT !.dialogOpen = FALSE])
    /\ last' = NoCalls
    /\ UNCHANGED << fistRun, crumplesInHold >>

\* something is dropped on the paper
OnDrop(file) ==
    /\ ~effectDirty
    /\ (file # NoFile /\ paperState = "IDLE") => loads < MaxLoads
    /\ Install(LET s == init(Cur)
               IN  IF s.paperState # "IDLE" THEN s
                   ELSE IF file # NoFile THEN handleFile(s, file)
                   ELSE s)
    /\ last' = NoCalls
    /\ UNCHANGED << fistRun, crumplesInHold >>

\* reset() from the page
Reset ==
    /\ ~effectDirty
    /\ Install(reset(Cur))
    /\ last' = NoCalls
    /\ UNCHANGED << fistRun, crumplesInHold >>

Next ==
    \/ \E g \in GestureTypes, p \in Proximities : Sample(g, p)
    \/ RunEffect
    \/ BurnTimer
    \/ ShakeTimer
    \/ NoteTimer
    \/ TriggerUpload
    \/ \E f \in Files \cup {NoFile} : OnFileSelected(f)
    \/ \E f \in Files \cup {NoFile} : OnDrop(f)
    \/ Reset

Spec == Init /\ [][Next]_vars

\* The event loop runs a dirty effect's flush, and it runs the callback of a
\* burn timer that was set, however many frames and events arrive meanwhile
\* (strong fairness: the timer step waits while an effect is dirty, so it is
\* enabled again and again rather than without interruption).
\* The behaviours with at most MaxFairLoads files are enough for one burn
\* and every way of interrupting it.
FairNext ==
    \/ \E g \in GestureTypes, p \in Proximities : Sample(g, p)
    \/ RunEffect
    \/ BurnTimer
    \/ ShakeTimer
    \/ NoteTimer
    \/ TriggerUpload
    \/ \E f \in Files \cup {NoFile} :
           OnFileSelected(f) /\ loads' <= MaxFairLoads
    \/ \E f \in Files \cup {NoFile} : OnDrop(f) /\ loads' <= MaxFairLoads
    \/ Reset

FairSpec ==
    Init /\ [][FairNext]_vars /\ WF_vars(RunEffect) /\ SF_vars(BurnTimer)

----------------------------------------------------------------------------
(* The classifier alone: predictWebcam on frames drawn from LandmarkSets   *)

Pt(x, y, z) == [x |-> x, y |-> y, z |-> z]

\* the poses of a fingertip: straight (farther from the wrist than the PIP
\* joint), curled (nearer), level (exactly as far), deep (nearer in x and y,
\* farther with z)
TipPoses == {"straight", "curled", "level", "deep"}
ThumbPoses == {"tucked", "out"}

\* a hand of 21 landmarks: the wrist at (10, 10, 0), finger f = 1..4 in the
\* column x = 8 + f with its MCP, PIP and DIP joints fixed and its tip
\* placed by pose[f]; the thumb tip on the wrist or away from it
Hand(pose, thumb) ==
    [i \in 1..21 |->
        LET j == i - 1
            f == (j - 1) \div 4
            joint == (j - 1) % 4
            t == pose[f]
        IN  IF j = 0 THEN Pt(10, 10, 0)
            ELSE IF j < 4 THEN Pt(9, 10, 0)
            ELSE IF j = 4
                 THEN IF thumb = "tucked" THEN Pt(10, 10, 0) ELSE Pt(6, 10, 0)
            ELSE IF joint = 0 THEN Pt(8 + f, 11, 0)
            ELSE IF joint = 1 THEN Pt(8 + f, 13, 0)
            ELSE IF joint = 2 THEN Pt(8 + f, 14, 0)
            ELSE IF t = "straight" THEN Pt(8 + f, 15, 0)
            ELSE IF t = "curled" THEN Pt(8 + f, 12, 0)
            ELSE IF t = "level" THEN Pt(8 + f, 7, 0)
            ELSE Pt(8 + f, 11, 3)]

PoseHands ==
    {Hand(pose, thumb) : pose \in [1..4 -> TipPoses], thumb \in ThumbPoses}

\* the sides of the bounding boxes tried, in twentieths
BoxSides == {0, 3, 4, 5, 6, 7, 10, 11, 12, 17, 20}

\* a hand of 21 landmarks spanning a w by h box: all points in one corner
\* but two
Box(w, h) ==
    [i \in 1..21 |->
        IF i = 2 THEN Pt(w, 0, 0)
        ELSE IF i = 3 THEN Pt(0, h, 0)
        ELSE Pt(0, 0, 0)]

BoxHands == {Box(w, h) : w \in BoxSides, h \in BoxSides}

\* lists of 20 and of 22 landmarks: a hand with every finger in one pose,
\* its last point dropped or a point added
WrongSizeSets ==
    LET hs == {Hand([f \in 1..4 |-> t], thumb) :
                   t \in TipPoses, thumb \in ThumbPoses}
    IN  {SubSeq(h, 1, 20) : h \in hs} \cup {Append(h, Pt(20, 20, 0)) : h \in hs}

LandmarkSets == PoseHands \cup BoxHands \cup WrongSizeSets

\* predictWebcam on a new frame in which a hand was detected:
\* processGesture(detections.landmarks[0]).  An exception of processGesture
\* leaves predictWebcam before requestAnimationFrame is called again, so no
\* further frame is handled.
PredictWebcam(lm) ==
    /\ thrown = "none"
    /\ Install([processGesture(Cur, lm) EXCEPT !.landmarks = lm])
    /\ last' = NoCalls
    /\ UNCHANGED << fistRun, crumplesInHold >>

\* predictWebcam on a new frame without a hand
PredictWebcamNoHand ==
    /\ thrown = "none"
    /\ Install([setHandProximity(setCurrentGesture(Cur, "NONE"), 0)
                    EXCEPT !.landmarks = << >>])
    /\ last' = NoCalls
    /\ UNCHANGED << fistRun, crumplesInHold >>

ClassNext ==
    \/ \E lm \in LandmarkSets : PredictWebcam(lm)
    \/ PredictWebcamNoHand

ClassSpec == Init /\ [][ClassNext]_vars

----------------------------------------------------------------------------
(* Properties *)

TypeOK ==
    /\ paperState \in PaperStates
    /\ currentGesture \in GestureTypes
    /\ handProximity \in 0..100
    /\ thrown \in {"none", "TypeError"}
    /\ gestureHoldCounter \in 0..HoldThreshold
    /\ canCrumple \in BOOLEAN
    /\ sparks \in {0, SparkCount}
    /\ fistRun \in 0..MaxRun

\* a step that feeds a gesture sample to the game loop
GameLoopRun(gesture) == RunEffect /\ currentGesture = gesture

\* a sample that asks for a burn: an open palm closer than the threshold
BurnGesture == currentGesture = "OPEN_PALM" /\ handProximity > BurnProximity

Crumplable == {"ACTIVE", "CRUMPLED_1", "CRUMPLED_2"}

\* C1: from holdCounter = 0 with the gate open (the state every run of FIST
\* samples starts in), in any paper state, the first 5 consecutive FIST
\* samples fed to the game loop call triggerCrumple not once, and the 6th
\* calls it exactly once.
C1_SixthFistFiresOnce ==
    /\ fistRun = 0 => (gestureHoldCounter = 0 /\ canCrumple)
    /\ fistRun \in 1..5 => (crumplesInHold = 0 /\ last.crumple = 0)
    /\ fistRun = 6 => crumplesInHold = 1

C1_Witness ==
    fistRun = 6 /\ last.crumple = 1 /\ paperState = "IDLE"

\* C2: a run of the game loop with an OPEN_PALM or NONE sample leaves the
\* hold count at 0, and triggerCrumple is called only by the run that is the
\* 6th of 6 consecutive FIST runs (so never when a NONE broke the six).
C2_StrictRunLength ==
    [][RunEffect =>
          /\ (currentGesture # "FIST" => gestureHoldCounter' = 0)
          /\ (last'.crumple > 0 => (currentGesture = "FIST" /\ fistRun' = 6))
      ]_vars

\* a NONE after three FIST samples threw the count of 3 away
C2_Witness ==
    /\ last.loop /\ currentGesture = "NONE"
    /\ last.cancelled = 3 /\ gestureHoldCounter = 0 /\ fistRun = 0

\* C3: in one unbroken run of FIST samples triggerCrumple is called at most
\* once, however long the fist is held after the call: the gate stays
\* closed and the count stays 0 until an OPEN_PALM or NONE sample.
C3_OneCrumplePerHold ==
    /\ crumplesInHold <= 1
    /\ fistRun > 6 =>
          (crumplesInHold = 1 /\ ~canCrumple /\ gestureHoldCounter = 0)

\* the fist was held for 6 more frames after the crumple
C3_Witness ==
    fistRun >= 12 /\ crumplesInHold = 1 /\ last.loop /\ last.crumple = 0

\* C4: the burn timer that a reset() during BURNING left pending never moves
\* paperState from IDLE to ASHES, and a timer of an earlier burn never clears
\* the sparks of a later one.
C4_ResetCancelsBurnTimer ==
    [][BurnTimer =>
          /\ (paperState = "IDLE" => paperState' = "IDLE")
          /\ (Head(burnTimers) # burnSeq => sparks' = sparks)
      ]_vars

\* C5: a call of triggerCrumple in a paper state other than ACTIVE,
\* CRUMPLED_1 and CRUMPLED_2 changes nothing: paperState stays, no signal
\* notification is raised, no crumple sound is played, isShaking is not set
\* and no shake timer is started.
C5_CrumpleGuard ==
    [][(RunEffect /\ last'.crumple > 0 /\ paperState \notin Crumplable) =>
          /\ paperState' = paperState
          /\ ~effectDirty'
          /\ cues' = {}
          /\ isShaking' = isShaking
          /\ shakeTimers' = shakeTimers
      ]_vars

C5_Witness ==
    /\ last.crumple = 1 /\ paperState = "CRUMPLED_FINAL" /\ cues = {}
    /\ ~isShaking

NextStage(st) ==
    CASE st = "ACTIVE" -> "CRUMPLED_1"
      [] st = "CRUMPLED_1" -> "CRUMPLED_2"
      [] st = "CRUMPLED_2" -> "CRUMPLED_FINAL"
      [] OTHER -> st

\* C7: the 6th of 6 consecutive FIST samples, counted from a fresh debouncer
\* (that is, from the last NONE or OPEN_PALM sample), moves ACTIVE to
\* CRUMPLED_1, CRUMPLED_1 to CRUMPLED_2 and CRUMPLED_2 to CRUMPLED_FINAL;
\* every call of triggerCrumple in one of these states advances the paper by
\* exactly one stage, and a crumple stage is entered in no other way.
C7_CrumpleStages ==
    [][/\ (GameLoopRun("FIST") /\ fistRun = 5 /\ paperState \in Crumplable)
            => (paperState' = NextStage(paperState) /\ last'.crumple = 1)
       /\ (RunEffect /\ last'.crumple > 0 /\ paperState \in Crumplable)
            => paperState' = NextStage(paperState)
       /\ (paperState' # paperState /\ paperState' \in
                {"CRUMPLED_1", "CRUMPLED_2", "CRUMPLED_FINAL"})
            => /\ GameLoopRun("FIST") /\ fistRun' = 6
               /\ paperState \in Crumplable
               /\ paperState' = NextStage(paperState)
      ]_vars

\* the third crumple of a paper has just fired
C7_Witness ==
    /\ paperState = "CRUMPLED_FINAL" /\ last.crumple = 1 /\ fistRun = 6
    /\ "CrumpleSound" \in cues /\ shakeTimers = 3

\* C8: a burn gesture fed to the game loop in CRUMPLED_FINAL makes the paper
\* BURNING with exactly 40 sparks; and from BURNING the paper becomes ASHES
\* with the sparks cleared, unless a reset or a file load moved it to IDLE
\* or ACTIVE first.
C8_BurnThenAshes ==
    /\ [][(RunEffect /\ BurnGesture /\ paperState = "CRUMPLED_FINAL") =>
            (paperState' = "BURNING" /\ sparks' = SparkCount
                /\ "BurnSound" \in cues')]_vars
    /\ (paperState = "BURNING") ~>
           ((paperState = "ASHES" /\ sparks = 0)
               \/ paperState \in {"IDLE", "ACTIVE"})

\* the one burn of the one paper loaded has ended in ashes
C8_Witness ==
    /\ paperState = "ASHES" /\ sparks = 0 /\ burnSeq = 1 /\ loads = 1
    /\ burnTimers = << >> /\ cues = {"SparksClear"}

\* C9: paperState becomes BURNING in exactly those steps that feed the game
\* loop an OPEN_PALM sample with proximity > 0.15 while paperState is
\* CRUMPLED_FINAL, whatever the hold count and the gate are.
C9_BurnTrigger ==
    [][(paperState # "BURNING" /\ paperState' = "BURNING")
          <=> (RunEffect /\ BurnGesture /\ paperState = "CRUMPLED_FINAL")
      ]_vars

C9_Witness ==
    /\ last.loop /\ last.burn = 1 /\ paperState = "BURNING"
    /\ sparks = SparkCount /\ handProximity = 16

\* C10: in ASHES no gesture sample and no run of the game loop changes
\* paperState, and paperState goes from ASHES to IDLE by reset() only.
C10_AshesTerminal ==
    [][paperState = "ASHES" =>
          /\ (RunEffect \/ \E g \in GestureTypes, p \in Proximities :
                               Sample(g, p))
               => paperState' = "ASHES"
          /\ paperState' = "IDLE" => Reset
      ]_vars

\* a crumple and, after a release, a burn gesture were fed in ASHES
C10_Witness ==
    /\ paperState = "ASHES" /\ last.loop /\ BurnGesture
    /\ last.cancelled = 0 /\ canCrumple /\ fistRun = 0

\* any gesture sample arrives
AnySample == \E g \in GestureTypes, p \in Proximities : Sample(g, p)

\* a file is handed to the page, by the dialog or by a drop
FileArrives ==
    \E f \in Files : OnFileSelected(f) \/ OnDrop(f)

\* C11: reset() leaves the debouncer at holdCounter = 0 with the gate open,
\* whatever it was before.
C11_ResetRearmsDebouncer ==
    [][Reset => (gestureHoldCounter' = 0 /\ canCrumple')]_vars

\* C12: paperState becomes ACTIVE from IDLE only, and a file that arrives in
\* another state leaves paperState, fileName and fileType as they are.
C12_FileOnlyInIdle ==
    [][/\ (paperState # "ACTIVE" /\ paperState' = "ACTIVE")
            => paperState = "IDLE"
       /\ (FileArrives /\ paperState # "IDLE")
            => UNCHANGED << paperState, fileName, fileType >>
      ]_vars

\* C13: every gesture sample gets a run of handleGameLoop (also a sample
\* equal to the one before), and nothing but a sample causes a run: no timer,
\* reset or file load, and no run of handleGameLoop itself.
C13_OneRunPerSample ==
    [][/\ AnySample => effectDirty'
       /\ (~effectDirty /\ effectDirty') => AnySample
       /\ RunEffect => ~effectDirty'
      ]_vars

\* C17: paperState becomes ASHES from BURNING only, and only by the timer
\* of the burn in progress (the last one started).
C17_AshesByOwnTimer ==
    [][(paperState # "ASHES" /\ paperState' = "ASHES") =>
          /\ BurnTimer
          /\ paperState = "BURNING"
          /\ Head(burnTimers) = burnSeq
      ]_vars

\* C18: the spark list holds 40 sparks while paperState is BURNING and is
\* empty in every other paper state.
C18_SparksIffBurning ==
    sparks = (IF paperState = "BURNING" THEN 40 ELSE 0)

\* C19: the hold count stays within 0..5, it is 0 whenever the gate is
\* closed, and a FIST sample fed with the gate closed leaves it unchanged.
C19_CounterRange ==
    /\ [](gestureHoldCounter \in 0..5)
    /\ [](~canCrumple => gestureHoldCounter = 0)
    /\ [][(GameLoopRun("FIST") /\ ~canCrumple) =>
            (gestureHoldCounter' = gestureHoldCounter /\ ~canCrumple')]_vars

\* a FIST sample was fed with the gate closed
C19_Witness ==
    /\ last.loop /\ currentGesture = "FIST" /\ fistRun = 8
    /\ ~canCrumple /\ gestureHoldCounter = 0

\* C20: the music is playing, with its next-note timer pending, exactly
\* when paperState is not IDLE.
C20_MusicIffNotIdle ==
    /\ isMusicPlaying <=> paperState # "IDLE"
    /\ nextNoteTimer <=> isMusicPlaying

----------------------------------------------------------------------------
(* Properties of the classifier *)

\* a frame with a hand is handled
AnyFrame == \E lm \in LandmarkSets : PredictWebcam(lm)

\* the four fingertips
FingerTips == {8, 12, 16, 20}

\* the square of the distance of landmark i from the wrist
FromWrist(lm, i) ==
    LET dx == lm[i + 1].x - lm[1].x
        dy == lm[i + 1].y - lm[1].y
        dz == lm[i + 1].z - lm[1].z
    IN  dx * dx + dy * dy + dz * dz

\* the fingers whose tip is strictly nearer to the wrist than their PIP joint
CurledFingers(lm) ==
    {tip \in FingerTips : FromWrist(lm, tip) < FromWrist(lm, tip - 2)}

\* two landmark lists that differ in the thumb (landmarks 1..4) at most
SameButThumb(a, b) ==
    /\ Len(a) = Len(b)
    /\ \A i \in 1..Len(a) : i \in 2..5 \/ a[i] = b[i]

\* C14: on a list of 21 landmarks, with c the number of curled fingers, the
\* gesture is FIST for c >= 3, OPEN_PALM for c = 0 and NONE for c of 1 or 2;
\* and two hands that differ in the thumb only get the same gesture.
C14_GestureByCurlCount ==
    /\ [](Len(landmarks) = 21 =>
            LET c == Cardinality(CurledFingers(landmarks))
            IN  currentGesture = (IF c >= 3 THEN "FIST"
                                  ELSE IF c = 0 THEN "OPEN_PALM"
                                  ELSE "NONE"))
    /\ [][(Len(landmarks) = 21 /\ Len(landmarks') = 21
                /\ SameButThumb(landmarks, landmarks'))
            => currentGesture' = currentGesture]_vars

\* three fingers curled and the fourth exactly as far from the wrist as its
\* PIP joint: FIST with a count of 3
C14_Witness ==
    /\ Len(landmarks) = 21
    /\ Cardinality(CurledFingers(landmarks)) = 3
    /\ \E tip \in FingerTips :
           FromWrist(landmarks, tip) = FromWrist(landmarks, tip - 2)
    /\ currentGesture = "FIST"

\* C15: a frame whose landmark list has not 21 points fails with
\* InvalidInput and changes neither currentGesture nor handProximity.
C15_WrongSizeRejected ==
    [][(AnyFrame /\ Len(landmarks') # 21) =>
          /\ thrown' = "InvalidInput"
          /\ UNCHANGED << currentGesture, handProximity >>
      ]_vars

\* the bounding box of the points of a landmark list and its area, in 1/400
Lowest(S) == CHOOSE v \in S : \A w \in S : v <= w
Highest(S) == CHOOSE v \in S : \A w \in S : v >= w
BoxArea(lm) ==
    LET xs == {lm[i].x : i \in 1..Len(lm)}
        ys == {lm[i].y : i \in 1..Len(lm)}
    IN  (Highest(xs) - Lowest(xs)) * (Highest(ys) - Lowest(ys))

\* C16: on a list of 21 landmarks the proximity is within 0..1, it is 0 for
\* an area of 0.05 or less and 1 for an area of 0.30 or more, and of two
\* hands the one with the larger area has no smaller proximity.
C16_ProximityOfArea ==
    /\ [](Len(landmarks) = 21 =>
            /\ handProximity \in 0..100
            /\ BoxArea(landmarks) <= 20 => handProximity = 0
            /\ BoxArea(landmarks) >= 120 => handProximity = 100)
    /\ [][(Len(landmarks) = 21 /\ Len(landmarks') = 21
                /\ BoxArea(landmarks) <= BoxArea(landmarks'))
            => handProximity <= handProximity']_vars

\* a hand whose box has an area of exactly 0.30
C16_Witness ==
    /\ Len(landmarks) = 21
    /\ BoxArea(landmarks) = 120
    /\ handProximity = 100
====
